---------------------------- MODULE Spec2Model ----------------------------
(***************************************************************************)
(* qt-func-grapher: the arithmetic parser (arithmetic_parser.py).          *)
(*                                                                         *)
(* An ArithmeticParser object holds the formula text (expr), the lexeme    *)
(* list (lexems) and the expression tree (ast).  parse() tokenizes the     *)
(* text, wraps every operator in parentheses (_preprocess) and builds the  *)
(* tree; evaluate(x) walks the tree over a numpy array of samples.         *)
(*                                                                         *)
(* Text is a sequence of one-character strings, a lexeme is a sequence of  *)
(* characters, and list indices are 0-based as in the source (At, Insert). *)
(***************************************************************************)
EXTENDS Integers, Sequences, FiniteSets, TLC

VARIABLES expr, lexems, ast, outcome

\* The window (widget.py): the GrapherWidget's widgets and attributes, the
\* connections made on the class attribute UpdateWorker.signals, the
\* workers handed to the thread pool that have not run yet, the slot calls
\* queued for the main thread, and the number of calls made so far of
\* refresh(), ArithmeticParser.parse() and QThreadPool.start().
VARIABLES window, signals, thread_pool, event_queue, calls

guiVars == <<window, signals, thread_pool, event_queue, calls>>

vars == <<expr, lexems, ast, outcome, window, signals, thread_pool, event_queue, calls>>

----------------------------------------------------------------------------
(* Bounds of the model.                                                    *)

\* longest formula text of the free-text family
MaxLen == 4
\* most operators in a formula of the parenthesis-free family
MaxOps == 3
\* most operators in a formula of the parenthesised family
MaxParenOps == 4
\* longest sample array handed to evaluate()
MaxSamples == 2
\* largest magnitude the model computes exactly; beyond it a value is kept
\* as the unevaluated numpy operation
MaxExact == 1000

----------------------------------------------------------------------------
(* Characters and lexemes.                                                 *)

Operators == {"+", "-", "*", "/", "^"}

Delimiters == Operators \cup {"(", ")"}

Digits == {"0", "1", "2", "3", "4", "5", "6", "7", "8", "9"}

DigitVal(c) ==
    CASE c = "0" -> 0 [] c = "1" -> 1 [] c = "2" -> 2 [] c = "3" -> 3
      [] c = "4" -> 4 [] c = "5" -> 5 [] c = "6" -> 6 [] c = "7" -> 7
      [] c = "8" -> 8 [] c = "9" -> 9

\* F applied to the value of e, with e computed once
Let(e, F(_)) == CHOOSE out \in {F(v) : v \in {e}} : TRUE

\* a one-character lexeme
Lx(c) == <<c>>

OPEN == Lx("(")

CLOSE == Lx(")")

\* lst[i] of a Python list, 0-based
At(lst, i) == lst[i + 1]

\* list.insert(i, v): v goes before position i, or at the end when i >= len
Insert(lst, i, v) ==
    IF i >= Len(lst) THEN Append(lst, v)
    ELSE SubSeq(lst, 1, i) \o <<v>> \o SubSeq(lst, i + 1, Len(lst))

\* str.replace(" ", "")
RECURSIVE StripSpaces(_)
StripSpaces(s) ==
    IF s = <<>> THEN <<>>
    ELSE IF Head(s) = " " THEN StripSpaces(Tail(s))
    ELSE <<Head(s)>> \o StripSpaces(Tail(s))

\* re.split(r"([\+\-\*\/\^\(\)])", s) without the empty pieces: the text is
\* cut at every delimiter, each delimiter is a lexeme of its own, and the
\* characters between two delimiters form one lexeme.  cur is the piece
\* being collected.
RECURSIVE Split(_, _)
Split(s, cur) ==
    IF s = <<>> THEN (IF cur = <<>> THEN <<>> ELSE <<cur>>)
    ELSE IF Head(s) \in Delimiters
         THEN (IF cur = <<>> THEN <<>> ELSE <<cur>>)
              \o <<Lx(Head(s))>> \o Split(Tail(s), <<>>)
         ELSE Split(Tail(s), Append(cur, Head(s)))

----------------------------------------------------------------------------
(* Exceptions.                                                             *)

NoExc == [type |-> "none", msg |-> "", token |-> <<>>]

SyntaxErrorMany == [type |-> "SyntaxError", msg |-> "Too many closing parantheses", token |-> <<>>]

SyntaxErrorFew == [type |-> "SyntaxError", msg |-> "Too few closing parantheses", token |-> <<>>]

\* NameError(f"Unknown variable ('{tk}')")
NameErrorOf(tk) == [type |-> "NameError", msg |-> "Unknown variable", token |-> tk]

ValueErrorMissing == [type |-> "ValueError", msg |-> "Missing Operand", token |-> <<>>]

\* ops[self.getToken()] with a token that is no key of ops
KeyErrorOf(tok) == [type |-> "KeyError", msg |-> "", token |-> tok]

\* a numpy ufunc applied to a str operand
TypeErrorUfunc == [type |-> "TypeError", msg |-> "ufunc", token |-> <<>>]

----------------------------------------------------------------------------
(* _insertParanthesesAround.                                               *)

\* The backward loop, from ptr down to 0.  The result is the state the loop
\* ends in: the count, and the position of the inserted "(" (-1 when the
\* loop ran out without inserting).
RECURSIVE ScanBack(_, _, _)
ScanBack(lex, ptr, count) ==
    IF ptr < 0 THEN [count |-> count, at |-> -1]
    ELSE IF At(lex, ptr) = CLOSE THEN ScanBack(lex, ptr - 1, count + 1)
    ELSE LET c == IF At(lex, ptr) = OPEN THEN count - 1 ELSE count
         IN  IF c = 0 THEN [count |-> c, at |-> ptr]
             ELSE ScanBack(lex, ptr - 1, c)

\* The forward loop, from ptr up to the end of the list.
RECURSIVE ScanFwd(_, _, _)
ScanFwd(lex, ptr, count) ==
    IF ptr >= Len(lex) THEN [count |-> count, at |-> -1]
    ELSE IF At(lex, ptr) = OPEN THEN ScanFwd(lex, ptr + 1, count + 1)
    ELSE LET c == IF At(lex, ptr) = CLOSE THEN count - 1 ELSE count
         IN  IF c = 0 THEN [count |-> c, at |-> ptr]
             ELSE ScanFwd(lex, ptr + 1, c)

\* _insertParanthesesAround without lines 180-182: an operator with nothing
\* after it gets no closing parenthesis
InsertParanthesesAroundNoAppend(lex, index) ==
    Let(ScanBack(lex, index - 1, 0), LAMBDA back :
    Let(IF back.at >= 0 THEN Insert(lex, back.at, OPEN) ELSE lex, LAMBDA lex1 :
        IF back.count # 0 THEN [lexems |-> lex1, exc |-> SyntaxErrorMany]
        ELSE Let(ScanFwd(lex1, index + 2, back.count), LAMBDA fwd :
             Let(IF fwd.at >= 0 THEN Insert(lex1, fwd.at + 1, CLOSE) ELSE lex1,
                 LAMBDA lex2 :
                 IF fwd.count # 0 THEN [lexems |-> lex2, exc |-> SyntaxErrorFew]
                 ELSE [lexems |-> lex2, exc |-> NoExc]))))

\* _insertParanthesesAround(index) on the list lex: the list it leaves and
\* the exception it raises (NoExc when it returns).
InsertParanthesesAround(lex, index) ==
    Let(ScanBack(lex, index - 1, 0), LAMBDA back :
    Let(IF back.at >= 0 THEN Insert(lex, back.at, OPEN) ELSE lex, LAMBDA lex1 :
        IF back.count # 0 THEN [lexems |-> lex1, exc |-> SyntaxErrorMany]
        ELSE IF index + 2 >= Len(lex1)
             THEN [lexems |-> Insert(lex1, index + 2, CLOSE), exc |-> NoExc]
        ELSE Let(ScanFwd(lex1, index + 2, back.count), LAMBDA fwd :
             Let(IF fwd.at >= 0 THEN Insert(lex1, fwd.at + 1, CLOSE) ELSE lex1,
                 LAMBDA lex2 :
                 IF fwd.count # 0 THEN [lexems |-> lex2, exc |-> SyntaxErrorFew]
                 ELSE [lexems |-> lex2, exc |-> NoExc]))))

----------------------------------------------------------------------------
(* _preprocess and _tockenize.                                             *)

\* [i for i, el in enumerate(self.lexems) if el in ops], from position i on
RECURSIVE IndicesFrom(_, _, _)
IndicesFrom(lex, ops, i) ==
    IF i >= Len(lex) THEN <<>>
    ELSE (IF Len(At(lex, i)) = 1 /\ At(lex, i)[1] \in ops THEN <<i>> ELSE <<>>)
         \o IndicesFrom(lex, ops, i + 1)

\* the loop of a pass run from the last operator to the first
RECURSIVE WrapFromRight(_, _, _)
WrapFromRight(lex, indices, i) ==
    IF i >= Len(indices) THEN [lexems |-> lex, exc |-> NoExc]
    ELSE Let(InsertParanthesesAround(lex, At(indices, Len(indices) - 1 - i)),
             LAMBDA r :
             IF r.exc # NoExc THEN r ELSE WrapFromRight(r.lexems, indices, i + 1))

\* for i in range(len(indices)): self._insertParanthesesAround(indices[i] + 2 * i)
\* from the i-th operator on; an exception ends the loop.
RECURSIVE WrapFrom(_, _, _)
WrapFrom(lex, indices, i) ==
    IF i >= Len(indices) THEN [lexems |-> lex, exc |-> NoExc]
    ELSE Let(InsertParanthesesAround(lex, At(indices, i) + 2 * i), LAMBDA r :
             IF r.exc # NoExc THEN r ELSE WrapFrom(r.lexems, indices, i + 1))

\* one pass of _preprocess: the operators of one tier, recorded first and
\* wrapped left to right
WrapPass(lex, ops) ==
    Let(IndicesFrom(lex, ops, 0), LAMBDA indices : WrapFrom(lex, indices, 0))

\* the passes in the opposite order
PassOrderReversed == << {"+", "-"}, {"*", "/"}, {"^"} >>

\* the tiers in the order _preprocess wraps them
PassOrder == << {"^"}, {"*", "/"}, {"+", "-"} >>

RECURSIVE PassesFrom(_, _)
PassesFrom(lex, k) ==
    IF k > Len(PassOrder) THEN [lexems |-> lex, exc |-> NoExc]
    ELSE Let(WrapPass(lex, PassOrder[k]), LAMBDA r :
             IF r.exc # NoExc THEN r ELSE PassesFrom(r.lexems, k + 1))

Preprocess(lex) == PassesFrom(lex, 1)

\* _tockenize: the stripped text, the lexeme list _preprocess leaves and the
\* exception it raises
Tockenize(text) ==
    Let(StripSpaces(text), LAMBDA stripped :
    Let(Split(stripped, <<>>), LAMBDA split :
    Let(Preprocess(split), LAMBDA r :
        [expr |-> stripped, lexems |-> r.lexems, exc |-> r.exc])))

----------------------------------------------------------------------------
(* _BinaryTreeNode.  A tree is a function from the paths of its nodes      *)
(* (sequences of "l" and "r", the root being <<>>) to their tokens.  A     *)
(* token is a str, [str |-> s], or a float, [num |-> n].                   *)

StrTok(s) == [str |-> s]

NumTok(n) == [num |-> n]

IsStr(tok) == "str" \in DOMAIN tok

IsNum(tok) == "num" \in DOMAIN tok

EQ == StrTok("=")

LeftOf(p) == Append(p, "l")

RightOf(p) == Append(p, "r")

IsPrefix(p, q) == Len(p) <= Len(q) /\ SubSeq(q, 1, Len(p)) = p

\* _BinaryTreeNode("="), alone
NewTree == (<<>> :> EQ)

\* getLeft() / getRight() is not None
HasLeft(nodes, p) == LeftOf(p) \in DOMAIN nodes

HasRight(nodes, p) == RightOf(p) \in DOMAIN nodes

\* the child slot c of a node is assigned a fresh childless node: whatever
\* hung there before is dropped
SetChild(nodes, c, tok) ==
    LET kept == {q \in DOMAIN nodes : ~IsPrefix(c, q)}
    IN  [q \in kept \cup {c} |-> IF q = c THEN tok ELSE nodes[q]]

InsertLeft(nodes, p, tok) == SetChild(nodes, LeftOf(p), tok)

InsertRight(nodes, p, tok) == SetChild(nodes, RightOf(p), tok)

SetToken(nodes, p, tok) == [nodes EXCEPT ![p] = tok]

----------------------------------------------------------------------------
(* ArithmeticParser.parse.                                                 *)

\* float(tk) succeeds.  Over the characters of this model (digits, letters)
\* a lexeme parses as a float exactly when it is a non-empty digit string.
IsFloat(tk) == tk # <<>> /\ \A i \in 1..Len(tk) : tk[i] \in Digits

\* float(tk) of a digit string
RECURSIVE FloatOf(_)
FloatOf(tk) ==
    IF tk = <<>> THEN 0
    ELSE 10 * FloatOf(SubSeq(tk, 1, Len(tk) - 1)) + DigitVal(tk[Len(tk)])

\* the loop body with an unparseable lexeme skipped instead of raised
TreeStepSkipsUnknown(s, tk) ==
    IF tk = OPEN THEN
        IF ~HasLeft(s.nodes, s.cur)
        THEN [s EXCEPT !.nodes = InsertLeft(s.nodes, s.cur, EQ),
                       !.stack = Append(s.stack, s.cur),
                       !.cur   = LeftOf(s.cur)]
        ELSE [s EXCEPT !.nodes = InsertRight(s.nodes, s.cur, EQ),
                       !.cur   = RightOf(s.cur)]
    ELSE IF Len(tk) = 1 /\ tk[1] \in Operators THEN
        [s EXCEPT !.nodes = InsertRight(SetToken(s.nodes, s.cur, StrTok(tk[1])),
                                        s.cur, EQ),
                  !.cur   = RightOf(s.cur)]
    ELSE IF tk = CLOSE THEN
        IF Len(s.stack) > 0
        THEN [s EXCEPT !.cur   = s.stack[Len(s.stack)],
                       !.stack = SubSeq(s.stack, 1, Len(s.stack) - 1)]
        ELSE s
    ELSE IF tk = Lx("x") THEN
        [s EXCEPT !.nodes = InsertLeft(s.nodes, s.cur, StrTok("x"))]
    ELSE IF ~IsFloat(tk) THEN s
    ELSE
        [s EXCEPT !.nodes = InsertLeft(s.nodes, s.cur, NumTok(FloatOf(tk)))]

\* One turn of the loop "for tk in self.lexems" on the builder state
\* s = [nodes, cur, stack, exc].
TreeStep(s, tk) ==
    IF tk = OPEN THEN
        IF ~HasLeft(s.nodes, s.cur)
        THEN [s EXCEPT !.nodes = InsertLeft(s.nodes, s.cur, EQ),
                       !.stack = Append(s.stack, s.cur),
                       !.cur   = LeftOf(s.cur)]
        ELSE [s EXCEPT !.nodes = InsertRight(s.nodes, s.cur, EQ),
                       !.cur   = RightOf(s.cur)]
    ELSE IF Len(tk) = 1 /\ tk[1] \in Operators THEN
        [s EXCEPT !.nodes = InsertRight(SetToken(s.nodes, s.cur, StrTok(tk[1])),
                                        s.cur, EQ),
                  !.cur   = RightOf(s.cur)]
    ELSE IF tk = CLOSE THEN
        IF Len(s.stack) > 0
        THEN [s EXCEPT !.cur   = s.stack[Len(s.stack)],
                       !.stack = SubSeq(s.stack, 1, Len(s.stack) - 1)]
        ELSE s
    ELSE IF tk = Lx("x") THEN
        [s EXCEPT !.nodes = InsertLeft(s.nodes, s.cur, StrTok("x"))]
    ELSE IF ~IsFloat(tk) THEN
        [s EXCEPT !.exc = NameErrorOf(tk)]
    ELSE
        [s EXCEPT !.nodes = InsertLeft(s.nodes, s.cur, NumTok(FloatOf(tk)))]

\* the loop from the i-th lexeme on; an exception ends it
RECURSIVE BuildFrom(_, _, _)
BuildFrom(s, lex, i) ==
    IF i >= Len(lex) \/ s.exc # NoExc THEN s
    ELSE Let(TreeStep(s, At(lex, i)), LAMBDA t : BuildFrom(t, lex, i + 1))

BuildStart == [nodes |-> NewTree, cur |-> <<>>, stack |-> <<>>, exc |-> NoExc]

\* parse() on the text: what it leaves in expr and lexems, the exception it
\* raises, and the tree it assigns to self.ast when it raises none
ParseCall(text) ==
    Let(Tockenize(text), LAMBDA t :
        IF t.exc # NoExc
        THEN [expr |-> t.expr, lexems |-> t.lexems, exc |-> t.exc, nodes |-> NewTree]
        ELSE Let(BuildFrom(BuildStart, t.lexems, 0), LAMBDA b :
                 [expr |-> t.expr, lexems |-> t.lexems, nodes |-> b.nodes,
                  exc |-> IF b.exc # NoExc THEN b.exc
                          ELSE IF Len(b.stack) > 0 THEN SyntaxErrorFew
                          ELSE NoExc]))

----------------------------------------------------------------------------
(* numpy.  A float is [num |-> n] while the model computes it exactly (an  *)
(* integer of magnitude at most MaxExact); any other float is kept as the  *)
(* operation that yields it, [op |-> o, l |-> a, r |-> b], so two values   *)
(* are equal in the model only if numpy computes the same float.  An array *)
(* is [arr |-> <<e1, ..., en>>].                                           *)

Term(o, a, b) == [op |-> o, l |-> a, r |-> b]

Arr(elems) == [arr |-> elems]

IsArr(v) == "arr" \in DOMAIN v

Abs(n) == IF n < 0 THEN -n ELSE n

Exact(v) == IsNum(v) /\ Abs(v.num) <= MaxExact

\* acc * a ** b for |a| >= 2 and b >= 0, stopping once above MaxExact
RECURSIVE PowAcc(_, _, _)
PowAcc(a, b, acc) ==
    IF b = 0 \/ Abs(acc) > MaxExact THEN acc ELSE PowAcc(a, b - 1, acc * a)

\* a ** b for b >= 0; a result above MaxExact in magnitude only says so
IntPow(a, b) ==
    IF b = 0 THEN 1
    ELSE IF a = 0 \/ a = 1 THEN a
    ELSE IF a = -1 THEN (IF b % 2 = 0 THEN 1 ELSE -1)
    ELSE PowAcc(a, b, 1)

\* one float operation of a ufunc
ElemOp(o, a, b) ==
    IF ~(Exact(a) /\ Exact(b)) THEN Term(o, a, b)
    ELSE LET m == a.num
             n == b.num
             v == CASE o = "+" -> m + n
                    [] o = "-" -> m - n
                    [] o = "*" -> m * n
                    [] o = "/" -> IF n # 0 /\ Abs(m) % Abs(n) = 0
                                  THEN (IF (m < 0) = (n < 0) THEN 1 ELSE -1)
                                       * (Abs(m) \div Abs(n))
                                  ELSE MaxExact + 1
                    [] o = "^" -> IF n >= 0 THEN IntPow(m, n) ELSE MaxExact + 1
         IN  IF Abs(v) <= MaxExact THEN NumTok(v) ELSE Term(o, a, b)

\* np.add, np.subtract, np.multiply, np.divide, np.power on scalars and
\* arrays: elementwise, a scalar broadcast against an array.  A str operand
\* has no ufunc loop (numpy raises a TypeError).
NpApply(o, a, b) ==
    IF IsStr(a) \/ IsStr(b) THEN [exc |-> TypeErrorUfunc, value |-> a]
    ELSE IF IsArr(a) /\ IsArr(b) THEN
        [exc |-> NoExc,
         value |-> Arr([i \in 1..Len(a.arr) |-> ElemOp(o, a.arr[i], b.arr[i])])]
    ELSE IF IsArr(a) THEN
        [exc |-> NoExc,
         value |-> Arr([i \in 1..Len(a.arr) |-> ElemOp(o, a.arr[i], b)])]
    ELSE IF IsArr(b) THEN
        [exc |-> NoExc,
         value |-> Arr([i \in 1..Len(b.arr) |-> ElemOp(o, a, b.arr[i])])]
    ELSE [exc |-> NoExc, value |-> ElemOp(o, a, b)]

----------------------------------------------------------------------------
(* _BinaryTreeNode.evaluate.                                               *)

\* the keys of the dictionary ops
OpsKeys == {StrTok(o) : o \in Operators}

\* evaluate(x) of the node at path p: the exception raised, or the value
\* returned
RECURSIVE EvaluateNode(_, _, _)
EvaluateNode(nodes, p, x) ==
    IF HasLeft(nodes, p) /\ HasRight(nodes, p) THEN
        IF nodes[p] \notin OpsKeys
        THEN [exc |-> KeyErrorOf(nodes[p]), value |-> x]
        ELSE Let(EvaluateNode(nodes, LeftOf(p), x), LAMBDA lv :
                 IF lv.exc # NoExc THEN lv
                 ELSE Let(EvaluateNode(nodes, RightOf(p), x), LAMBDA rv :
                          IF rv.exc # NoExc THEN rv
                          ELSE NpApply(nodes[p].str, lv.value, rv.value)))
    ELSE IF HasLeft(nodes, p) THEN EvaluateNode(nodes, LeftOf(p), x)
    ELSE IF nodes[p] # EQ THEN
        (IF nodes[p] = StrTok("x") THEN [exc |-> NoExc, value |-> x]
         ELSE [exc |-> NoExc, value |-> nodes[p]])
    ELSE [exc |-> ValueErrorMissing, value |-> x]

\* ArithmeticParser.evaluate(x)
Evaluate(nodes, x) == EvaluateNode(nodes, <<>>, x)

----------------------------------------------------------------------------
(* The formulas a parser object is constructed with.                       *)

\* the flattening of a sequence of texts
RECURSIVE Concat(_)
Concat(parts) ==
    IF parts = <<>> THEN <<>> ELSE Head(parts) \o Concat(Tail(parts))

\* the formulas of the specification and of the test suite
Examples ==
    { <<"3", " ", "+", " ", "x">>,
      <<"3", " ", "+", " ", "x", " ", "*", " ", "2">>,
      <<"(", "3", " ", "+", " ", "x", ")", " ", "*", " ", "2">>,
      <<"3", " ", "+", " ">>,
      <<"z", " ", "+", " ", "1", "0">>,
      <<"(", "3", " ", "+", " ", "2", ")", ")", "^", "2">>,
      <<"2", "^", "(", "(", "2", ")">> }

\* the free-text family: every text of at most MaxLen characters
Alphabet == {"x", "z", "2", " ", "+", "^", "(", ")"}

Texts(n) == UNION {[1..k -> Alphabet] : k \in 0..n}

\* the j-th operand of a generated formula: x at position xAt, and a
\* literal of its own at every other position
Literals == <<"2", "3", "5", "7", "9", "4", "6", "8">>

Operand(j, xAt) ==
    IF j = xAt THEN <<"x">> ELSE <<Literals[((j - 1) % Len(Literals)) + 1]>>

OpText(o, spaced) == IF spaced THEN <<" ", o, " ">> ELSE <<o>>

\* operand (op operand)* over the operators ops, the operands numbered from
\* first on
FlatText(ops, first, xAt, spaced) ==
    Concat([i \in 1..(2 * Len(ops) + 1) |->
              IF i % 2 = 1 THEN Operand(first + (i - 1) \div 2, xAt)
              ELSE OpText(ops[i \div 2], spaced)])

OpSeqs(n) == UNION {[1..k -> Operators] : k \in 0..n}

\* the parenthesis-free family: at most MaxOps operators, written with or
\* without spaces, x at no or one position
FlatFormulas ==
    { FlatText(ops, 1, xAt, spaced) :
        ops \in OpSeqs(MaxOps), xAt \in 0..(MaxOps + 1), spaced \in BOOLEAN }

\* a parenthesis-free formula followed by one more operator
TrailingFormulas ==
    { FlatText(ops, 1, xAt, spaced) \o OpText(o, spaced) :
        ops \in OpSeqs(MaxOps - 1), xAt \in 0..MaxOps, spaced \in BOOLEAN,
        o \in Operators }

\* operand (op operand)* with the g-th operand replaced by a parenthesised
\* parenthesis-free formula
GroupText(outer, g, inner, xAt) ==
    Concat([i \in 1..(2 * Len(outer) + 1) |->
              IF i % 2 = 0 THEN <<outer[i \div 2]>>
              ELSE IF (i + 1) \div 2 = g
                   THEN <<"(">> \o FlatText(inner, Len(outer) + 2, xAt, FALSE)
                        \o <<")">>
                   ELSE Operand((i + 1) \div 2, xAt)])

\* the parenthesised family: one group, at most MaxParenOps operators in all
GroupFormulas ==
    UNION { { GroupText(outer, g, inner, xAt) :
                inner \in OpSeqs(MaxParenOps - Len(outer)),
                g \in 1..(Len(outer) + 1), xAt \in 0..1 } :
            outer \in OpSeqs(MaxParenOps) }

----------------------------------------------------------------------------
(* The calls on one parser object.                                         *)

\* the attribute ast before parse() has assigned it
NoAst == [isSet |-> FALSE, nodes |-> NewTree]

\* np.linspace(lo, lo + n - 1, n)
Linspace(lo, n) == Arr([i \in 1..n |-> NumTok(lo + i - 1)])

SampleLows == {1, 3}

Samples == {Linspace(lo, n) : lo \in SampleLows, n \in 0..MaxSamples}

NoCall == [call |-> "none", exc |-> NoExc, value |-> Arr(<<>>), x |-> Arr(<<>>)]

\* the text of error_label: str(err) of the exception shown, or ""
LabelOf(exc) == [msg |-> exc.msg, token |-> exc.token]

NoLabel == LabelOf(NoExc)

\* the colour of QPalette.Text of a widget
DefaultColour == "default"

Red == "red"

\* the widgets as the lines 102-154 of __init__ create them
NewWindow ==
    [func_combo_box |-> <<"x">>,
     from_line_edit |-> <<"0">>,
     to_line_edit   |-> <<"1", "0">>,
     error_label    |-> NoLabel,
     func_colour    |-> DefaultColour,
     from_colour    |-> DefaultColour,
     to_colour      |-> DefaultColour,
     x              |-> Arr(<<>>),
     func_line      |-> [x |-> Arr(<<>>), y |-> Arr(<<>>)]]

NoSignals == [data |-> 0, error |-> 0]

NoCalls == [refresh |-> 0, parse |-> 0, start |-> 0]

\* no window has been created
NoGui ==
    /\ window = NewWindow
    /\ signals = NoSignals
    /\ thread_pool = {}
    /\ event_queue = <<>>
    /\ calls = NoCalls

InitWith(formulas) ==
    /\ expr \in formulas
    /\ lexems = <<>>
    /\ ast = NoAst
    /\ outcome = NoCall
    /\ NoGui

Init == InitWith(Texts(MaxLen) \cup Examples)

InitFlat == InitWith(FlatFormulas \cup TrailingFormulas \cup Examples)

InitGroup == InitWith(GroupFormulas \cup Examples)

\* parse() with self.ast assigned before the loop over the lexemes
ParseAssignsFirst ==
    /\ outcome.call = "none"
    /\ \E r \in {ParseCall(expr)} :
           /\ expr' = r.expr
           /\ lexems' = r.lexems
           /\ ast' = [isSet |-> TRUE, nodes |-> r.nodes]
           /\ outcome' = [call |-> "parse", exc |-> r.exc, value |-> Arr(<<>>),
                          x |-> Arr(<<>>)]
    /\ UNCHANGED guiVars

\* parser.parse(), called once on a new parser object
Parse ==
    /\ outcome.call = "none"
    /\ \E r \in {ParseCall(expr)} :
           /\ expr' = r.expr
           /\ lexems' = r.lexems
           /\ ast' = IF r.exc = NoExc THEN [isSet |-> TRUE, nodes |-> r.nodes]
                     ELSE ast
           /\ outcome' = [call |-> "parse", exc |-> r.exc, value |-> Arr(<<>>),
                          x |-> Arr(<<>>)]
    /\ UNCHANGED guiVars

\* evaluate(x) writing the samples into the leaves that hold x
EvaluateCallSubstituting(x) ==
    /\ ast.isSet
    /\ \E r \in {Evaluate(ast.nodes, x)} :
           outcome' = [call |-> "evaluate", exc |-> r.exc,
                       value |-> IF r.exc = NoExc THEN r.value ELSE Arr(<<>>),
                       x |-> x]
    /\ ast' = [ast EXCEPT !.nodes =
                  [p \in DOMAIN ast.nodes |->
                      IF ast.nodes[p] = StrTok("x") THEN x ELSE ast.nodes[p]]]
    /\ UNCHANGED <<expr, lexems>>
    /\ UNCHANGED guiVars

\* parser.evaluate(x), once parse() has assigned the tree
EvaluateCall(x) ==
    /\ ast.isSet
    /\ \E r \in {Evaluate(ast.nodes, x)} :
           outcome' = [call |-> "evaluate", exc |-> r.exc,
                       value |-> IF r.exc = NoExc THEN r.value ELSE Arr(<<>>),
                       x |-> x]
    /\ UNCHANGED <<expr, lexems, ast, window, signals, thread_pool, event_queue, calls>>

Next ==
    \/ Parse
    \/ \E x \in Samples : EvaluateCall(x)

Spec == Init /\ [][Next]_vars

SpecFlat == InitFlat /\ [][Next]_vars

SpecGroup == InitGroup /\ [][Next]_vars

----------------------------------------------------------------------------
(* The window: LimitsValidator (validator.py), UpdateWorker and            *)
(* GrapherWidget (widget.py).  A limit held by the validator is the text   *)
(* entered, [text |-> t], or the float parsed from it, [num |-> n].        *)

\* most calls of refresh() in a behaviour
MaxRefresh == 3

LowerInvalid ==
    [type |-> "ValueError", msg |-> "lower_limit is not a valid number", token |-> <<>>]

UpperInvalid ==
    [type |-> "ValueError", msg |-> "upper_limit is not a valid number", token |-> <<>>]

FromGreater ==
    [type |-> "ValueError", msg |-> "From is greater than To", token |-> <<>>]

NotValidNumber(name) == IF name = "lower_limit" THEN LowerInvalid ELSE UpperInvalid

\* LimitsValidator(lower_limit, upper_limit)
LimitsValidator(lower_limit, upper_limit) ==
    [lower_limit |-> [text |-> lower_limit], upper_limit |-> [text |-> upper_limit]]

\* isinstance(limit, float)
IsFloatValue(limit) == "num" \in DOMAIN limit

\* LimitsValidator.parse(name): the validator it leaves and the exception
\* it raises; self[name] is replaced only when float() succeeds
ValidatorParse(v, name) ==
    IF IsFloatValue(v[name]) THEN [validator |-> v, exc |-> NoExc]
    ELSE IF IsFloat(v[name].text)
    THEN [validator |-> [v EXCEPT ![name] = NumTok(FloatOf(v[name].text))],
          exc |-> NoExc]
    ELSE [validator |-> v, exc |-> NotValidNumber(name)]

\* LimitsValidator.validate(): the exception it raises
Validate(v) ==
    IF /\ IsFloatValue(v.lower_limit)
       /\ IsFloatValue(v.upper_limit)
       /\ v.lower_limit.num >= v.upper_limit.num
    THEN FromGreater
    ELSE NoExc

\* refresh() from line 231 on, with both limits parsed and in order: the
\* window it leaves, whether parse() was called, and the workers started
RefreshFormula(w, lower_limit, upper_limit) ==
    \* np.linspace(lower_limit, upper_limit, 501), of which the model keeps
    \* the first and the last point
    Let(Arr(<<lower_limit, upper_limit>>), LAMBDA x :
    Let(ParseCall(w.func_combo_box), LAMBDA r :
        IF r.exc # NoExc
        THEN [window  |-> [w EXCEPT !.x = x,
                                    !.func_colour = Red,
                                    !.error_label = LabelOf(r.exc)],
              parsed  |-> TRUE,
              started |-> <<>>]
        ELSE [window  |-> [w EXCEPT !.x = x, !.func_colour = DefaultColour],
              parsed  |-> TRUE,
              started |-> << [nodes |-> r.nodes, x |-> x] >>]))

\* refresh() without the return of lines 227-229
RefreshOfNoSkip(w) ==
    Let(LimitsValidator(w.from_line_edit, w.to_line_edit), LAMBDA v :
    Let(ValidatorParse(v, "lower_limit"), LAMBDA lower :
    Let(ValidatorParse(lower.validator, "upper_limit"), LAMBDA upper :
    Let(Validate(upper.validator), LAMBDA raised :
    Let([w EXCEPT
           !.error_label = IF raised # NoExc THEN LabelOf(raised)
                           ELSE IF upper.exc # NoExc THEN LabelOf(upper.exc)
                           ELSE LabelOf(lower.exc),
           !.from_colour = IF lower.exc # NoExc \/ raised # NoExc
                           THEN Red ELSE DefaultColour,
           !.to_colour   = IF upper.exc # NoExc \/ raised # NoExc
                           THEN Red ELSE DefaultColour], LAMBDA w1 :
        RefreshFormula(w1, NumTok(0), NumTok(1)))))))

\* refresh() on the window w
RefreshOf(w) ==
    Let(LimitsValidator(w.from_line_edit, w.to_line_edit), LAMBDA v :
    Let(ValidatorParse(v, "lower_limit"), LAMBDA lower :
    Let(ValidatorParse(lower.validator, "upper_limit"), LAMBDA upper :
    Let(Validate(upper.validator), LAMBDA raised :
    Let([w EXCEPT
           !.error_label = IF raised # NoExc THEN LabelOf(raised)
                           ELSE IF upper.exc # NoExc THEN LabelOf(upper.exc)
                           ELSE LabelOf(lower.exc),
           !.from_colour = IF lower.exc # NoExc \/ raised # NoExc
                           THEN Red ELSE DefaultColour,
           !.to_colour   = IF upper.exc # NoExc \/ raised # NoExc
                           THEN Red ELSE DefaultColour], LAMBDA w1 :
        IF lower.exc # NoExc \/ upper.exc # NoExc \/ raised # NoExc
        THEN [window |-> w1, parsed |-> FALSE, started |-> <<>>]
        ELSE RefreshFormula(w1, upper.validator.lower_limit,
                            upper.validator.upper_limit))))))

\* the window, the connections, the pool and the calls after refresh() ran
\* on the window w; every worker started connects both callbacks once more
AfterRefresh(w, sig, pool, c) ==
    Let(RefreshOf(w), LAMBDA r :
        [window      |-> r.window,
         signals     |-> IF r.started = <<>> THEN sig
                         ELSE [data |-> sig.data + 1, error |-> sig.error + 1],
         thread_pool |-> pool \cup {[refresh |-> c.refresh + 1,
                                     nodes   |-> r.started[i].nodes,
                                     x       |-> r.started[i].x] :
                                        i \in 1..Len(r.started)},
         calls       |-> [refresh |-> c.refresh + 1,
                          parse   |-> c.parse + (IF r.parsed THEN 1 ELSE 0),
                          start   |-> c.start + Len(r.started)]])

\* the texts the user enters as formula and as limits
FuncTexts == { <<"x">>, <<"x", "+">>, <<"z">>, <<"2", "(">>, <<"x", "+", "2">> }

LimitTexts == { <<"0">>, <<"1">>, <<"1", "0">>, <<"a">> }

\* GrapherWidget(): __init__ ends with a call of refresh()
InitGui ==
    /\ expr = <<>>
    /\ lexems = <<>>
    /\ ast = NoAst
    /\ outcome = NoCall
    /\ \E r \in {AfterRefresh(NewWindow, NoSignals, {}, NoCalls)} :
           /\ window = r.window
           /\ signals = r.signals
           /\ thread_pool = r.thread_pool
           /\ calls = r.calls
    /\ event_queue = <<>>

\* the slot refresh(), run by a text change that left the window w
Refresh(w) ==
    /\ calls.refresh < MaxRefresh
    /\ \E r \in {AfterRefresh(w, signals, thread_pool, calls)} :
           /\ window' = r.window
           /\ signals' = r.signals
           /\ thread_pool' = r.thread_pool
           /\ calls' = r.calls
    /\ UNCHANGED <<expr, lexems, ast, outcome, event_queue>>

\* the user changes the formula: editTextChanged runs refresh()
EditFunc(t) ==
    /\ t # window.func_combo_box
    /\ Refresh([window EXCEPT !.func_combo_box = t])

\* the user changes From: textChanged runs refresh()
EditFrom(t) ==
    /\ t # window.from_line_edit
    /\ Refresh([window EXCEPT !.from_line_edit = t])

\* the user changes To: textChanged runs refresh()
EditTo(t) ==
    /\ t # window.to_line_edit
    /\ Refresh([window EXCEPT !.to_line_edit = t])

\* n slot calls of one emission, one for each connection
Fanout(n, call) == [i \in 1..n |-> call]

\* UpdateWorker.run() in a pool thread: the emission queues, for every
\* connection made so far, a call of the slot in the main thread; an
\* exception other than ValueError leaves run() and nothing is emitted
WorkerRun(wk) ==
    /\ wk \in thread_pool
    /\ thread_pool' = thread_pool \ {wk}
    /\ \E r \in {Evaluate(wk.nodes, wk.x)} :
           event_queue' =
               IF r.exc = NoExc
               THEN event_queue \o Fanout(signals.data,
                        [slot |-> "resultDataCallback", refresh |-> wk.refresh,
                         x |-> wk.x, y |-> r.value, err |-> NoExc])
               ELSE IF r.exc.type = "ValueError"
               THEN event_queue \o Fanout(signals.error,
                        [slot |-> "notifyError", refresh |-> wk.refresh,
                         x |-> wk.x, y |-> Arr(<<>>), err |-> r.exc])
               ELSE event_queue
    /\ UNCHANGED <<expr, lexems, ast, outcome, window, signals, calls>>

\* resultDataCallback(y): self._func_line.set_data(self._x, y)
ResultDataCallback(w, y) == [w EXCEPT !.func_line = [x |-> w.x, y |-> y]]

\* notifyError((err, tb))
NotifyError(w, err) ==
    [w EXCEPT !.func_colour = Red, !.error_label = LabelOf(err)]

\* the main thread runs the next queued slot call
Deliver ==
    /\ event_queue # <<>>
    /\ event_queue' = Tail(event_queue)
    /\ window' = IF Head(event_queue).slot = "resultDataCallback"
                 THEN ResultDataCallback(window, Head(event_queue).y)
                 ELSE NotifyError(window, Head(event_queue).err)
    /\ UNCHANGED <<expr, lexems, ast, outcome, signals, thread_pool, calls>>

NextGui ==
    \/ \E t \in FuncTexts : EditFunc(t)
    \/ \E t \in LimitTexts : EditFrom(t)
    \/ \E t \in LimitTexts : EditTo(t)
    \/ \E wk \in thread_pool : WorkerRun(wk)
    \/ Deliver

SpecGui == InitGui /\ [][NextGui]_vars

----------------------------------------------------------------------------
(* What a formula means: the grammar of well-formed formulas and the value *)
(* of one at a sample, stated on the text, apart from the parser.          *)

\* the formula as typed, without its spaces
Formula == SelectSeq(expr, LAMBDA c : c # " ")

\* 1 for + and -, 2 for * and /, 3 for ^
Tier(o) == IF o \in {"+", "-"} THEN 1 ELSE IF o \in {"*", "/"} THEN 2 ELSE 3

\* The operator a formula splits at: outside every parenthesis, of the
\* loosest tier present, and the last of them (so that a chain groups left
\* to right).  at = 0 when there is none; ok tells whether the parentheses
\* are balanced.
RECURSIVE SplitScan(_, _, _, _)
SplitScan(text, i, depth, best) ==
    IF i > Len(text) THEN [ok |-> depth = 0, at |-> best]
    ELSE IF text[i] = "(" THEN SplitScan(text, i + 1, depth + 1, best)
    ELSE IF text[i] = ")" THEN
        (IF depth = 0 THEN [ok |-> FALSE, at |-> 0]
         ELSE SplitScan(text, i + 1, depth - 1, best))
    ELSE IF text[i] \in Operators /\ depth = 0
            /\ (best = 0 \/ Tier(text[i]) <= Tier(text[best]))
         THEN SplitScan(text, i + 1, depth, i)
    ELSE SplitScan(text, i + 1, depth, best)

IsLiteral(text) == text # <<>> /\ \A i \in 1..Len(text) : text[i] \in Digits

RECURSIVE Decimal(_)
Decimal(text) ==
    IF text = <<>> THEN 0
    ELSE 10 * Decimal(SubSeq(text, 1, Len(text) - 1)) + DigitVal(text[Len(text)])

\* balanced parentheses, every operator with two operands, an operand being
\* x, a literal or a parenthesised well-formed formula
RECURSIVE WellFormed(_)
WellFormed(text) ==
    Let(SplitScan(text, 1, 0, 0), LAMBDA sc :
        IF ~sc.ok THEN FALSE
        ELSE IF sc.at > 0
             THEN /\ WellFormed(SubSeq(text, 1, sc.at - 1))
                  /\ WellFormed(SubSeq(text, sc.at + 1, Len(text)))
        ELSE IF text = <<"x">> \/ IsLiteral(text) THEN TRUE
        ELSE /\ Len(text) >= 2
             /\ text[1] = "("
             /\ text[Len(text)] = ")"
             /\ WellFormed(SubSeq(text, 2, Len(text) - 1)))

\* the value of a well-formed formula at the sample xi: a group first, then
\* ^, then * and /, then + and -, each tier from left to right
RECURSIVE ValueAt(_, _)
ValueAt(text, xi) ==
    Let(SplitScan(text, 1, 0, 0), LAMBDA sc :
        IF sc.at > 0
        THEN ElemOp(text[sc.at], ValueAt(SubSeq(text, 1, sc.at - 1), xi),
                    ValueAt(SubSeq(text, sc.at + 1, Len(text)), xi))
        ELSE IF text = <<"x">> THEN xi
        ELSE IF IsLiteral(text) THEN NumTok(Decimal(text))
        ELSE ValueAt(SubSeq(text, 2, Len(text) - 1), xi))

ParenFree(text) == \A i \in 1..Len(text) : text[i] \notin {"(", ")"}

OperatorsAt(text) == {i \in 1..Len(text) : text[i] \in Operators}

TiersOf(text) == {Tier(text[i]) : i \in OperatorsAt(text)}

\* the i-th element of what evaluate() returned, a scalar standing for each
\* of its elements
ElementAt(v, i) == IF IsArr(v) THEN v.arr[i] ELSE v

Evaluated == outcome.call = "evaluate"

Parsed == outcome.call = "parse"

\* evaluate() returned, and at every sample the value of the formula
ReturnsValue ==
    /\ outcome.exc = NoExc
    /\ \A i \in 1..Len(outcome.x.arr) :
          ElementAt(outcome.value, i) = ValueAt(Formula, outcome.x.arr[i])

TextOf3PlusXTimes2 == <<"3", "+", "x", "*", "2">>

----------------------------------------------------------------------------
(* The claims.                                                             *)

\* C1: parse() of a well-formed formula raises neither SyntaxError nor
\* NameError.
C1_WellFormedParses ==
    (Parsed /\ WellFormed(Formula)) => outcome.exc.type \notin {"SyntaxError", "NameError"}

\* C2: for a parenthesis-free well-formed formula with operators of more
\* than one tier, evaluate() returns at every sample the value under the
\* precedence ^ over * / over + -.
C2_Precedence ==
    (Evaluated /\ ParenFree(Formula) /\ WellFormed(Formula)
       /\ Cardinality(TiersOf(Formula)) >= 2) => ReturnsValue

\* C2 witness: 3 + x * 2 at the samples 1, 2 is 5, 7.
C2_Witness ==
    /\ Evaluated
    /\ expr = TextOf3PlusXTimes2
    /\ outcome.x = Linspace(1, 2)
    /\ outcome.value = Arr(<<NumTok(5), NumTok(7)>>)

\* C3: for a well-formed formula with parentheses that parse() accepted,
\* evaluate() returns at every sample the value with each group evaluated
\* first.
C3_Parentheses ==
    (Evaluated /\ WellFormed(Formula) /\ ~ParenFree(Formula)) => ReturnsValue

\* the first operator at or after position i, Len(text) + 1 when none
RECURSIVE NextOperator(_, _)
NextOperator(text, i) ==
    IF i > Len(text) \/ text[i] \in Operators THEN i
    ELSE NextOperator(text, i + 1)

OperandValue(text, xi) == IF text = <<"x">> THEN xi ELSE NumTok(Decimal(text))

\* a parenthesis-free formula taken strictly from left to right: acc is the
\* value of the text before the operator at position i
RECURSIVE ChainFrom(_, _, _, _)
ChainFrom(text, i, acc, xi) ==
    IF i > Len(text) THEN acc
    ELSE Let(NextOperator(text, i + 1), LAMBDA j :
         Let(ElemOp(text[i], acc, OperandValue(SubSeq(text, i + 1, j - 1), xi)),
             LAMBDA v : ChainFrom(text, j, v, xi)))

ChainValue(text, xi) ==
    Let(NextOperator(text, 1), LAMBDA j :
        ChainFrom(text, j, OperandValue(SubSeq(text, 1, j - 1), xi), xi))

\* C4: a parenthesis-free chain of two or more operators of one tier is
\* evaluated from left to right.
C4_LeftToRight ==
    (Evaluated /\ ParenFree(Formula) /\ WellFormed(Formula)
       /\ Cardinality(TiersOf(Formula)) = 1
       /\ Cardinality(OperatorsAt(Formula)) >= 2)
    => /\ outcome.exc = NoExc
       /\ \A i \in 1..Len(outcome.x.arr) :
             ElementAt(outcome.value, i) = ChainValue(Formula, outcome.x.arr[i])

\* C4 witness: x - 3 - 5 at the samples 1, 2 is -7, -6.
C4_Witness ==
    /\ Evaluated
    /\ expr = <<"x", "-", "3", "-", "5">>
    /\ outcome.x = Linspace(1, 2)
    /\ outcome.value = Arr(<<NumTok(-7), NumTok(-6)>>)

\* C5: evaluate() of a well-formed formula over n samples returns an array
\* of n elements, the i-th being the value at the i-th sample, also when
\* the formula holds no x.
C5_OneValuePerSample ==
    (Evaluated /\ WellFormed(Formula))
    => /\ outcome.exc = NoExc
       /\ IsArr(outcome.value)
       /\ Len(outcome.value.arr) = Len(outcome.x.arr)
       /\ \A i \in 1..Len(outcome.x.arr) :
             outcome.value.arr[i] = ValueAt(Formula, outcome.x.arr[i])

Count(text, c) == Cardinality({i \in 1..Len(text) : text[i] = c})

\* some ")" has no "(" before it to match
UnmatchedClose(text) ==
    \E k \in 1..Len(text) :
        Count(SubSeq(text, 1, k), ")") > Count(SubSeq(text, 1, k), "(")

\* some "(" is never closed
UnclosedOpen(text) == Count(text, "(") > Count(text, ")")

\* C6: parse() of a formula with an unmatched ")" raises
\* SyntaxError("Too many closing parantheses") and assigns no tree.
C6_TooManyClosing ==
    (Parsed /\ UnmatchedClose(Formula))
    => (outcome.exc = SyntaxErrorMany /\ ~ast.isSet)

\* C7: parse() of a formula with an unclosed "(" raises
\* SyntaxError("Too few closing parantheses") and assigns no tree.
C7_TooFewClosing ==
    (Parsed /\ UnclosedOpen(Formula))
    => (outcome.exc = SyntaxErrorFew /\ ~ast.isSet)

\* the first delimiter at or after position i, Len(text) + 1 when none
RECURSIVE NextDelimiter(_, _)
NextDelimiter(text, i) ==
    IF i > Len(text) \/ text[i] \in Delimiters THEN i
    ELSE NextDelimiter(text, i + 1)

\* the lexeme starting at position i: a maximal run of characters that are
\* no delimiters
StartsRun(text, i) ==
    /\ text[i] \notin Delimiters
    /\ (i = 1 \/ text[i - 1] \in Delimiters)

RunFrom(text, i) == SubSeq(text, i, NextDelimiter(text, i) - 1)

\* the starts of the lexemes that are neither x nor a number
UnknownAt(text) ==
    {i \in 1..Len(text) :
        /\ StartsRun(text, i)
        /\ RunFrom(text, i) # <<"x">>
        /\ ~IsLiteral(RunFrom(text, i))}

FirstUnknown(text) ==
    RunFrom(text, CHOOSE i \in UnknownAt(text) : \A j \in UnknownAt(text) : i <= j)

\* C8: parse() of a formula with a lexeme that is neither an operator, a
\* parenthesis, x nor a number assigns no tree; when _preprocess raises
\* nothing it raises NameError naming the first such lexeme.
C8_UnknownToken ==
    (Parsed /\ UnknownAt(Formula) # {})
    => /\ outcome.exc # NoExc
       /\ ~ast.isSet
       /\ (outcome.exc.type # "SyntaxError"
             => outcome.exc = NameErrorOf(FirstUnknown(Formula)))

\* C8 witness: x+z raises NameError naming z, after x was accepted.
C8_Witness ==
    /\ Parsed
    /\ expr = <<"x", "+", "z">>
    /\ outcome.exc = NameErrorOf(<<"z">>)

\* a well-formed parenthesis-free formula followed by one operator
TrailingOperator(text) ==
    /\ Len(text) >= 2
    /\ text[Len(text)] \in Operators
    /\ ParenFree(text)
    /\ WellFormed(SubSeq(text, 1, Len(text) - 1))

\* C9: for a well-formed parenthesis-free formula followed by one trailing
\* operator, parse() raises nothing and evaluate() raises
\* ValueError("Missing Operand").
C9_MissingOperand ==
    TrailingOperator(Formula)
    => /\ Parsed => outcome.exc = NoExc
       /\ Evaluated => outcome.exc = ValueErrorMissing

\* C9 witness: "3 + " parsed and evaluated.
C9_Witness ==
    /\ Evaluated
    /\ expr = <<"3", "+">>
    /\ lexems = <<OPEN, <<"3">>, <<"+">>, CLOSE>>
    /\ outcome.exc = ValueErrorMissing

\* C10: no tree parse() assigns has a node with two children and a token
\* that is no operator, and evaluate() raises nothing but
\* ValueError("Missing Operand").
C10_OnlyMissingOperand ==
    /\ ast.isSet =>
         \A p \in DOMAIN ast.nodes :
             (HasLeft(ast.nodes, p) /\ HasRight(ast.nodes, p))
             => ast.nodes[p] \in OpsKeys
    /\ Evaluated => outcome.exc \in {NoExc, ValueErrorMissing}

\* C11: _preprocess applied to the list a successful _preprocess left
\* returns that list unchanged and raises nothing.
C11_Idempotent ==
    (Parsed /\ Tockenize(expr).exc = NoExc)
    => Preprocess(lexems) = [lexems |-> lexems, exc |-> NoExc]

Balanced(toks, open, close) ==
    /\ \A k \in 1..Len(toks) :
          Cardinality({i \in 1..k : toks[i] = close})
              <= Cardinality({i \in 1..k : toks[i] = open})
    /\ Cardinality({i \in 1..Len(toks) : toks[i] = close})
           = Cardinality({i \in 1..Len(toks) : toks[i] = open})

\* C14: when the parentheses of the formula are balanced and _preprocess
\* returns normally, the parentheses of the list it leaves are balanced.
C14_BalancePreserved ==
    (Parsed /\ Balanced(Formula, "(", ")") /\ Tockenize(expr).exc = NoExc)
    => Balanced(lexems, OPEN, CLOSE)

IsOperatorOf(tk, ops) == Len(tk) = 1 /\ tk[1] \in ops

\* the position idx of the list holds the i-th (from 0) operator of ops
HoldsOperator(lex, idx, i, ops) ==
    /\ idx < Len(lex)
    /\ IsOperatorOf(At(lex, idx), ops)
    /\ Cardinality({j \in 0..(idx - 1) : IsOperatorOf(At(lex, j), ops)}) = i

\* every call of a pass, from the i-th on, is made at its operator
RECURSIVE OffsetsHit(_, _, _, _)
OffsetsHit(lex, indices, i, ops) ==
    IF i >= Len(indices) THEN TRUE
    ELSE /\ HoldsOperator(lex, At(indices, i) + 2 * i, i, ops)
         /\ Let(InsertParanthesesAround(lex, At(indices, i) + 2 * i), LAMBDA r :
                r.exc # NoExc \/ OffsetsHit(r.lexems, indices, i + 1, ops))

\* every call of the passes from the k-th on is made at its operator
RECURSIVE PassesHit(_, _)
PassesHit(lex, k) ==
    IF k > Len(PassOrder) THEN TRUE
    ELSE /\ OffsetsHit(lex, IndicesFrom(lex, PassOrder[k], 0), 0, PassOrder[k])
         /\ Let(WrapPass(lex, PassOrder[k]), LAMBDA r :
                r.exc # NoExc \/ PassesHit(r.lexems, k + 1))

\* C15: in every pass of _preprocess over a well-formed formula the lexeme
\* at indices[i] + 2 * i is the i-th operator recorded for the pass.
C15_OffsetHitsOperator ==
    (Parsed /\ WellFormed(Formula)) => PassesHit(Split(Formula, <<>>), 1)

\* the nodes of the tree with an operator token and a missing child
OperatorsLackingOperand(nodes) ==
    {p \in DOMAIN nodes :
        /\ nodes[p] \in OpsKeys
        /\ ~(HasLeft(nodes, p) /\ HasRight(nodes, p))}

\* C16: evaluate() of a node whose token is an operator and that lacks an
\* operand raises ValueError("Missing Operand").
C16_OperatorNeedsOperands ==
    Evaluated =>
        \A p \in OperatorsLackingOperand(ast.nodes) :
            EvaluateNode(ast.nodes, p, outcome.x).exc = ValueErrorMissing

\* C17: when parse() raises, self.ast is left unset as before the call; a
\* tree is assigned only when the whole list was consumed without an
\* exception and the stack ended empty, and it is the tree of that run.
C17_NoPartialTree ==
    /\ (Parsed /\ outcome.exc # NoExc) => ast = NoAst
    /\ ast.isSet =>
         /\ Tockenize(expr).exc = NoExc
         /\ \E b \in {BuildFrom(BuildStart, lexems, 0)} :
                /\ b.exc = NoExc
                /\ b.stack = <<>>
                /\ b.nodes = ast.nodes

\* C17 witness: "(x" builds the nodes of ( and x, then raises at the end of
\* the list; self.ast stays unset.
C17_Witness ==
    /\ Parsed
    /\ expr = <<"(", "x">>
    /\ outcome.exc = SyntaxErrorFew
    /\ BuildFrom(BuildStart, lexems, 0).nodes # NewTree
    /\ ast = NoAst

\* C18: after any number of evaluate() calls the tree is the one parse()
\* built, and the outcome of the last call is the outcome of evaluating
\* that tree on the same samples.
C18_EvaluateLeavesTree ==
    Evaluated =>
        \E r \in {ParseCall(expr)} :
            /\ r.exc = NoExc
            /\ ast = [isSet |-> TRUE, nodes |-> r.nodes]
            /\ \E v \in {Evaluate(r.nodes, outcome.x)} :
                   /\ outcome.exc = v.exc
                   /\ v.exc = NoExc => outcome.value = v.value

\* C18 witness: x+2 evaluated at 3, 4 gives 5, 6 and the tree still holds x.
C18_Witness ==
    /\ Evaluated
    /\ expr = <<"x", "+", "2">>
    /\ outcome.x = Linspace(3, 2)
    /\ outcome.value = Arr(<<NumTok(5), NumTok(6)>>)
    /\ ast.nodes[<<"l", "l">>] = StrTok("x")

\* the parentheses open after the lexemes 0..i of the list
OpenAfter(lex, i) ==
    Cardinality({j \in 0..i : At(lex, j) = OPEN})
        - Cardinality({j \in 0..i : At(lex, j) = CLOSE})

\* from the i-th lexeme on: every "(" finds the left slot of the current
\* node empty, every ")" finds a node to pop, the stack is as deep as the
\* parentheses open after each lexeme, and it is empty at the end
RECURSIVE StackTracks(_, _, _)
StackTracks(s, lex, i) ==
    IF i >= Len(lex) THEN s.stack = <<>>
    ELSE /\ At(lex, i) = OPEN => ~HasLeft(s.nodes, s.cur)
         /\ At(lex, i) = CLOSE => Len(s.stack) > 0
         /\ Let(TreeStep(s, At(lex, i)), LAMBDA t :
                /\ Len(t.stack) = OpenAfter(lex, i)
                /\ StackTracks(t, lex, i + 1))

\* C19: while parse() builds the tree from the normalized list of a
\* well-formed formula, nodes_stack is as deep as the parentheses open.
C19_StackTracksDepth ==
    (Parsed /\ WellFormed(Formula) /\ Tockenize(expr).exc = NoExc)
    => StackTracks(BuildStart, lexems, 0)

\* C12: a refresh() that ran with a From text that is no number and a To
\* text that is one leaves the label "lower_limit is not a valid number",
\* calls no parse() and starts no worker.
C12_LowerLimitInvalid ==
    [][(/\ calls'.refresh # calls.refresh
        /\ ~IsFloat(window'.from_line_edit)
        /\ IsFloat(window'.to_line_edit))
       => /\ window'.error_label = LabelOf(LowerInvalid)
          /\ calls'.parse = calls.parse
          /\ calls'.start = calls.start
          /\ thread_pool' = thread_pool
          /\ signals' = signals]_vars

\* C12 witness: the second refresh() ran with From "a" and To "10".
C12_Witness ==
    /\ window.from_line_edit = <<"a">>
    /\ window.to_line_edit = <<"1", "0">>
    /\ window.error_label = LabelOf(LowerInvalid)
    /\ window.from_colour = Red
    /\ calls = [refresh |-> 2, parse |-> 1, start |-> 1]

\* C13: validate() raises ValueError("From is greater than To"), which
\* refresh() shows in the label, exactly when both limits were parsed and
\* the lower one is strictly greater than the upper one.
C13_StrictlyGreater ==
    [][calls'.refresh # calls.refresh
       => ((window'.error_label = LabelOf(FromGreater))
           <=> (/\ IsFloat(window'.from_line_edit)
                /\ IsFloat(window'.to_line_edit)
                /\ FloatOf(window'.from_line_edit) > FloatOf(window'.to_line_edit)))]_vars

\* the main thread runs a slot call queued by a worker that an earlier
\* refresh() started, after a later refresh() has run
StaleDelivery ==
    /\ event_queue # <<>>
    /\ event_queue' = Tail(event_queue)
    /\ Head(event_queue).refresh < calls.refresh

\* C20: a signal of a worker started by an earlier refresh(), delivered
\* after a later refresh() ran, changes neither the plotted line nor the
\* error label nor the colour of the formula box.
C20_StaleDiscarded ==
    [][StaleDelivery
       => /\ window'.func_line = window.func_line
          /\ window'.error_label = window.error_label
          /\ window'.func_colour = window.func_colour]_vars

\* the main thread runs a queued call of resultDataCallback
DataDelivery ==
    /\ event_queue # <<>>
    /\ event_queue' = Tail(event_queue)
    /\ Head(event_queue).slot = "resultDataCallback"

\* C21: the y values resultDataCallback draws were computed by a worker
\* from the x array self._x holds when they are drawn.
C21_DrawnAgainstOwnX ==
    [][DataDelivery => Head(event_queue).x = window.x]_vars

\* a worker of the pool has run
WorkerRan == thread_pool' # thread_pool /\ thread_pool' \subseteq thread_pool

\* the slot calls the step has queued
Queued == SubSeq(event_queue', Len(event_queue) + 1, Len(event_queue'))

\* C22: a worker run that returned a value queues exactly one call of
\* resultDataCallback, and one that raised ValueError exactly one call of
\* notifyError, whatever the number of connections made so far.
C22_OneCallPerRun ==
    [][WorkerRan =>
         \A wk \in thread_pool \ thread_pool' :
             \E r \in {Evaluate(wk.nodes, wk.x)} :
                 /\ r.exc = NoExc =>
                      /\ Len(Queued) = 1
                      /\ Queued[1].slot = "resultDataCallback"
                 /\ r.exc.type = "ValueError" =>
                      /\ Len(Queued) = 1
                      /\ Queued[1].slot = "notifyError"]_vars

=============================================================================
